---- MODULE Spec2Model ----
(***************************************************************************)
(* Historization (SCD type 2) load of PostgresDestination:                 *)
(* dags/tasks/destinations/postgres_destination.py, driven by              *)
(* DAGBuilder.load_data (pre_load_hook, load, post_load_hook).             *)
(*                                                                         *)
(* The database is modelled by what PostgreSQL does with the statements    *)
(* the code issues: `target` is the committed content of the target table, *)
(* `work` is the content seen by the open transaction of the connection    *)
(* that load() holds, the TEMPORARY staging table lives in that            *)
(* connection's session.                                                   *)
(*                                                                         *)
(* Beside the load: the construction of a destination from a configuration *)
(* (SpecConfig), _calculate_record_hash on any two records (SpecHash),     *)
(* ValidateDuplicateIdsTransform (SpecTransform) and ShopifyHook.run       *)
(* (SpecShopify), each a specification of its own over the same variables. *)
(***************************************************************************)
EXTENDS Integers, Sequences, FiniteSets, TLC

\* ------------------------------------------------------------------ bounds
MaxRows == 3          \* an INSERT that would grow the target beyond this fails
MaxLoads == 3         \* load_data runs at most this many times
MaxBatch == 2         \* longest batch handed to load()
MaxClock == 2         \* last clock tick
MaxInput == 3         \* longest list handed to a transform
MaxRetries == 3       \* largest max_retries handed to ShopifyHook.run

\* ------------------------------------------------------- program constants
TicksPerSecond == 2   \* strftime("%Y-%m-%d %H:%M:%S") keeps whole seconds
NULL == -1            \* SQL NULL / Python None in a timestamp column

\* --------------------------------------------------------------- records
\* A scalar value: its Python type and the text str() renders for it.
IntV(s) == [t |-> "int", s |-> s]
StrV(s) == [t |-> "str", s |-> s]

\* the records a batch is made of: two versions of entity 1, and entity 2
RecordList == <<[id |-> IntV("1"), name |-> StrV("a")],
                [id |-> IntV("1"), name |-> StrV("b")],
                [id |-> IntV("2"), name |-> StrV("a")]>>

\* the records of RecordList at the positions I, in list order
RECURSIVE Pick(_, _)
Pick(I, from) ==
    IF from > Len(RecordList) THEN <<>>
    ELSE IF from \in I THEN <<RecordList[from]>> \o Pick(I, from + 1)
    ELSE Pick(I, from + 1)

\* the batches handed to load(): up to MaxBatch distinct records.  The merge
\* statements are set-based, the order of a batch only decides the order of
\* the inserted rows, so one order per set of records is enumerated.
Batches ==
    {Pick(I, 1) : I \in {J \in SUBSET (1..Len(RecordList)) : Cardinality(J) <= MaxBatch}}

\* str(v) / f"{v}": the type is lost, None renders as "None"
Str(v) == IF v.t = "null" THEN "None" ELSE v.s

\* "sep".join(parts)
RECURSIVE Join(_, _)
Join(parts, sep) ==
    IF Len(parts) = 0 THEN ""
    ELSE IF Len(parts) = 1 THEN parts[1]
    ELSE parts[1] \o sep \o Join(Tail(parts), sep)

\* configuration (defaults of __init__, and the documented example config)
hash_algorithm == "md5"
id_columns == <<"id">>

\* sorted(record.items()): the keys of the model's records in sorted order
SortedKeys == <<"id", "name">>

\* hashlib.<alg>(text).hexdigest(): a digest is determined by the algorithm
\* and the text, and distinct texts give distinct digests
Digest(text) == <<hash_algorithm, text>>

_calculate_record_hash(record) ==
    Digest(Join([k \in 1..Len(SortedKeys) |->
                    SortedKeys[k] \o ":" \o Str(record[SortedKeys[k]])], "|"))

_calculate_id_hash(record) ==
    Digest(Join([k \in 1..Len(id_columns) |-> Str(record[id_columns[k]])], "|"))

\* datetime.now().strftime("%Y-%m-%d %H:%M:%S"): truncated to the second
MergeTimestamp(now) == now - (now % TicksPerSecond)

_enrich_with_system_columns(batch, now) ==
    [j \in 1..Len(batch) |->
        [data          |-> batch[j],
         record_hash   |-> _calculate_record_hash(batch[j]),
         id_hash       |-> _calculate_id_hash(batch[j]),
         valid_from    |-> now,
         valid_to      |-> NULL,
         deleted_at    |-> NULL,
         loaded_at     |-> now,
         load_batch_id |-> now \div TicksPerSecond]]

\* ------------------------------------------------ the four merge statements
IsCurrent(r) == r.valid_to = NULL /\ r.deleted_at = NULL

StagingIds(stg) == {stg[j].id_hash : j \in 1..Len(stg)}

\* restore_sql that restores only an identity that comes back unchanged
RestoreHits_sameHashOnly(rows, stg) ==
    {i \in 1..Len(rows) :
        /\ rows[i].deleted_at # NULL
        /\ rows[i].valid_to = NULL
        /\ \E j \in 1..Len(stg) :
              /\ stg[j].id_hash = rows[i].id_hash
              /\ stg[j].record_hash = rows[i].record_hash}

\* restore_sql that restores only an identity that comes back changed
RestoreHits_changedOnly(rows, stg) ==
    {i \in 1..Len(rows) :
        /\ rows[i].deleted_at # NULL
        /\ rows[i].valid_to = NULL
        /\ \E j \in 1..Len(stg) :
              /\ stg[j].id_hash = rows[i].id_hash
              /\ stg[j].record_hash # rows[i].record_hash}

\* restore_sql: rows the UPDATE touches
RestoreHits(rows, stg) ==
    {i \in 1..Len(rows) :
        /\ rows[i].deleted_at # NULL
        /\ rows[i].valid_to = NULL
        /\ \E j \in 1..Len(stg) : stg[j].id_hash = rows[i].id_hash}

\* a merge whose restore statement updates nothing
RestorePhase_skipped(rows, stg, t) == rows

\* restore_sql: the table after it
RestorePhase(rows, stg, t) ==
    [i \in 1..Len(rows) |->
        IF i \in RestoreHits(rows, stg)
        THEN [rows[i] EXCEPT !.deleted_at = NULL, !.valid_from = t]
        ELSE rows[i]]

\* supersede_sql with = in place of != on the record hash
SupersedeHits_sameHash(rows, stg) ==
    {i \in 1..Len(rows) :
        /\ rows[i].valid_to = NULL
        /\ rows[i].deleted_at = NULL
        /\ \E j \in 1..Len(stg) :
              /\ stg[j].id_hash = rows[i].id_hash
              /\ stg[j].record_hash = rows[i].record_hash}

\* a supersede statement without the comparison of the record hashes: it
\* closes the current row of every identity of the batch
SupersedeHits_everyStaged(rows, stg) ==
    {i \in 1..Len(rows) :
        /\ rows[i].valid_to = NULL
        /\ rows[i].deleted_at = NULL
        /\ \E j \in 1..Len(stg) : stg[j].id_hash = rows[i].id_hash}

\* supersede_sql
SupersedeHits(rows, stg) ==
    {i \in 1..Len(rows) :
        /\ rows[i].valid_to = NULL
        /\ rows[i].deleted_at = NULL
        /\ \E j \in 1..Len(stg) :
              /\ stg[j].id_hash = rows[i].id_hash
              /\ stg[j].record_hash # rows[i].record_hash}

\* a supersede that also overwrites the retired row with the new version
SupersedePhase_inPlace(rows, stg, t) ==
    [i \in 1..Len(rows) |->
        IF i \in SupersedeHits(rows, stg)
        THEN LET j == CHOOSE k \in 1..Len(stg) : stg[k].id_hash = rows[i].id_hash
             IN  [rows[i] EXCEPT !.valid_to = t,
                                 !.data = stg[j].data,
                                 !.record_hash = stg[j].record_hash]
        ELSE rows[i]]

SupersedePhase(rows, stg, t) ==
    [i \in 1..Len(rows) |->
        IF i \in SupersedeHits(rows, stg)
        THEN [rows[i] EXCEPT !.valid_to = t]
        ELSE rows[i]]

\* insert_sql without its WHERE NOT EXISTS
InsertSelected_all(rows, stg) == stg

\* insert_sql that asks for no current row of the identity, whatever its hash
InsertSelected_newIdentities(rows, stg) ==
    LET NoCurrentRow(s) ==
            ~ \E i \in 1..Len(rows) :
                  /\ rows[i].id_hash = s.id_hash
                  /\ rows[i].valid_to = NULL
                  /\ rows[i].deleted_at = NULL
    IN  SelectSeq(stg, NoCurrentRow)

\* insert_sql: the staging rows the SELECT returns, in staging order
InsertSelected(rows, stg) ==
    LET NoCurrentMatch(s) ==
            ~ \E i \in 1..Len(rows) :
                  /\ rows[i].id_hash = s.id_hash
                  /\ rows[i].record_hash = s.record_hash
                  /\ rows[i].valid_to = NULL
                  /\ rows[i].deleted_at = NULL
    IN  SelectSeq(stg, NoCurrentMatch)

\* insert_sql selecting s._valid_from in place of the merge timestamp
InsertPhase_stagedValidFrom(rows, stg, t) ==
    LET sel == InsertSelected(rows, stg)
    IN  rows \o [k \in 1..Len(sel) |->
                    [data          |-> sel[k].data,
                     record_hash   |-> sel[k].record_hash,
                     id_hash       |-> sel[k].id_hash,
                     valid_from    |-> sel[k].valid_from,
                     valid_to      |-> NULL,
                     deleted_at    |-> NULL,
                     loaded_at     |-> t,
                     load_batch_id |-> sel[k].load_batch_id]]

InsertPhase(rows, stg, t) ==
    LET sel == InsertSelected(rows, stg)
    IN  rows \o [k \in 1..Len(sel) |->
                    [data          |-> sel[k].data,
                     record_hash   |-> sel[k].record_hash,
                     id_hash       |-> sel[k].id_hash,
                     valid_from    |-> t,
                     valid_to      |-> NULL,
                     deleted_at    |-> NULL,
                     loaded_at     |-> t,
                     load_batch_id |-> sel[k].load_batch_id]]

\* delete_sql with EXISTS in place of NOT EXISTS
DeleteHits_inverted(rows, stg) ==
    {i \in 1..Len(rows) :
        /\ rows[i].valid_to = NULL
        /\ rows[i].deleted_at = NULL
        /\ \E j \in 1..Len(stg) : stg[j].id_hash = rows[i].id_hash}

\* delete_sql without "t._deleted_at IS NULL"
DeleteHits_noDeletedCheck(rows, stg) ==
    {i \in 1..Len(rows) :
        /\ rows[i].valid_to = NULL
        /\ ~ \E j \in 1..Len(stg) : stg[j].id_hash = rows[i].id_hash}

\* delete_sql
DeleteHits(rows, stg) ==
    {i \in 1..Len(rows) :
        /\ rows[i].valid_to = NULL
        /\ rows[i].deleted_at = NULL
        /\ ~ \E j \in 1..Len(stg) : stg[j].id_hash = rows[i].id_hash}

\* a merge whose delete statement updates nothing
DeletePhase_skipped(rows, stg, t) == rows

DeletePhase(rows, stg, t) ==
    [i \in 1..Len(rows) |->
        IF i \in DeleteHits(rows, stg)
        THEN [rows[i] EXCEPT !.deleted_at = t]
        ELSE rows[i]]

ZeroStats == [restored |-> 0, superseded |-> 0, inserted |-> 0, deleted |-> 0]


UniqueIds(batch) ==
    \A i, j \in 1..Len(batch) :
        i # j => _calculate_id_hash(batch[i]) # _calculate_id_hash(batch[j])

NoResult == [status |-> "none", rows_loaded |-> 0]

\* ------------------------------------------------------------------ state
VARIABLES
    target,              \* committed rows of the target table, in insertion order
    work,                \* the target as seen inside the connection's transaction
    staging,             \* rows of the TEMPORARY staging table
    stagingState,        \* "none", "uncommitted" (created in an open transaction), "committed"
    conn,                \* the connection of load(): "none", "open", "closed"
    pc,                  \* position of DAGBuilder.load_data / load / _merge_historized_data
    data,                \* the batch handed to the destination
    enriched,            \* enriched_data of load()
    staging_table_name,  \* self.staging_table_name is set
    track_deletes,       \* self.track_deletes
    clock,               \* wall clock, in ticks
    ts,                  \* current_timestamp of _merge_historized_data
    stats,               \* restored_count .. deleted_count
    result,              \* what load() returned
    pre,                 \* history: the target when the load began
    failedAt,            \* history: the step of this load that raised first
    allUnique,           \* history: every batch so far had one record per id_hash
    prevData,            \* history: batch of the latest committed merge
    repeat,              \* history: the merge just committed had the batch of the one before
    loads,               \* history: number of load_data runs so far
    issued,              \* history: <<connection, relation>> of the statements of this load_data run
    write_mode,          \* self.write_mode
    use_temp_table,      \* self.use_temp_table
    temp_table_name,     \* self.temp_table_name is set
    sessions,            \* the loads that run at the same time, each in a session of its own
    overlapped,          \* history: two loads have been in progress at the same time
    config,              \* the configuration dictionary handed to the constructor
    records,             \* the two records handed to _calculate_record_hash
    hashes,              \* what _calculate_record_hash returned for them
    source_data,         \* the data handed to ValidateDuplicateIdsTransform.transform
    keep,                \* self.keep of the transform
    deduplicated_data,   \* what transform returned
    returned,            \* transform has returned
    endpoint,            \* ShopifyHook.run: an endpoint was given
    method,              \* ShopifyHook.run: method.upper()
    max_retries,         \* ShopifyHook.run: max_retries
    attempt,             \* ShopifyHook.run: the loop variable
    run_pc,              \* ShopifyHook.run: "idle", "call", "loop", "returned", "raised"
    response,            \* ShopifyHook.run: status code of the response it returned
    responses            \* history: outcome of every request to the endpoint

directVars == <<write_mode, use_temp_table, temp_table_name>>
concVars == <<sessions, overlapped>>
hashVars == <<records, hashes>>
dedupVars == <<source_data, keep, deduplicated_data, returned>>
shopifyVars == <<endpoint, method, max_retries, attempt, run_pc, response, responses>>
extVars == <<config, hashVars, dedupVars, shopifyVars>>

\* the variables of a load
loadVars == <<target, work, staging, stagingState, conn, pc, data, enriched,
              staging_table_name, track_deletes, clock, ts, stats, result,
              pre, failedAt, allUnique, prevData, repeat, loads, issued,
              directVars, concVars>>

vars == <<target, work, staging, stagingState, conn, pc, data, enriched,
          staging_table_name, track_deletes, clock, ts, stats, result,
          pre, failedAt, allUnique, prevData, repeat, loads, issued,
          directVars, concVars, extVars>>

dbVars == <<target, work, staging, stagingState>>
histVars == <<pre, allUnique, prevData, repeat, loads>>

\* the parts of the program whose state a load of an already constructed
\* destination does not touch
NoConstruction == config = <<>>
NoHashing == records = <<>> /\ hashes = <<>>

NoTransform ==
    /\ source_data = <<>>
    /\ keep = "first"
    /\ deduplicated_data = <<>>
    /\ returned = FALSE

NoRequest ==
    /\ endpoint = FALSE
    /\ method = "GET"
    /\ max_retries = 0
    /\ attempt = 0
    /\ run_pc = "idle"
    /\ response = NULL
    /\ responses = <<>>

Unused ==
    /\ NoConstruction
    /\ NoHashing
    /\ NoTransform
    /\ NoRequest

\* a database with an empty target table and a clock at 0; every load_data
\* run builds its destination anew
FreshLoad ==
    /\ target = <<>>
    /\ work = <<>>
    /\ staging = <<>>
    /\ stagingState = "none"
    /\ conn = "none"
    /\ pc = "idle"
    /\ data = <<>>
    /\ enriched = <<>>
    /\ staging_table_name = FALSE
    /\ track_deletes \in BOOLEAN
    /\ clock = 0
    /\ ts = NULL
    /\ stats = ZeroStats
    /\ result = NoResult
    /\ pre = <<>>
    /\ failedAt = "none"
    /\ allUnique = TRUE
    /\ prevData = <<>>
    /\ repeat = FALSE
    /\ loads = 0
    /\ issued = {}
    /\ use_temp_table = FALSE
    /\ temp_table_name = FALSE
    /\ sessions = <<>>
    /\ overlapped = FALSE

Fresh ==
    /\ FreshLoad
    /\ Unused

\* a destination that is not asked to load anything
Idle ==
    /\ FreshLoad
    /\ track_deletes
    /\ write_mode = "historize"

\* the destination is configured with write_mode "historize" (the default)
Init ==
    /\ Fresh
    /\ write_mode = "historize"

Fail(step) == failedAt' = IF failedAt = "none" THEN step ELSE failedAt

\* load_data is left: the destination, its connection object and the result
\* go out of scope
Return ==
    /\ pc' = "idle"
    /\ work' = target
    /\ staging' = <<>>
    /\ stagingState' = "none"
    /\ conn' = "none"
    /\ data' = <<>>
    /\ enriched' = <<>>
    /\ staging_table_name' = FALSE
    /\ ts' = NULL
    /\ stats' = ZeroStats
    /\ result' = NoResult
    /\ pre' = <<>>
    /\ failedAt' = "none"
    /\ repeat' = FALSE
    /\ use_temp_table' = FALSE
    /\ temp_table_name' = FALSE
    /\ UNCHANGED <<target, track_deletes, clock, allUnique, prevData, loads>>
    /\ UNCHANGED <<write_mode, concVars, extVars>>

\* time passes.  The code reads the clock in two places, at the start of
\* _enrich_with_system_columns and at the start of _merge_historized_data:
\* a tick anywhere else is observed as a tick just before the next read
Tick ==
    /\ pc \in {"load", "m_begin"}
    /\ clock < MaxClock
    /\ clock' = clock + 1
    /\ UNCHANGED <<dbVars, conn, pc, data, enriched, staging_table_name,
                   track_deletes, ts, stats, result, histVars, failedAt>>
    /\ UNCHANGED issued
    /\ UNCHANGED <<directVars, concVars, extVars>>

\* DAGBuilder.load_data is called with a batch: DestinationFactory.create
\* builds a fresh destination (no connection, no staging table name)
Begin ==
    /\ pc = "idle"
    /\ loads < MaxLoads
    /\ loads' = loads + 1
    /\ \E batch \in Batches :
          /\ data' = batch
          /\ allUnique' = (allUnique /\ UniqueIds(batch))
    /\ pc' = "pre_load"
    /\ pre' = target
    /\ UNCHANGED <<dbVars, conn, enriched, staging_table_name, track_deletes,
                   clock, ts, stats, result, failedAt, prevData, repeat>>
    /\ issued' = {}
    /\ UNCHANGED <<directVars, concVars, extVars>>

\* pre_load_hook, historize branch: names the staging table and makes sure
\* the target table exists; an exception leaves load_data
pre_load_hook ==
    /\ pc = "pre_load"
    /\ write_mode = "historize"
    /\ IF data = <<>>
       THEN /\ pc' = "load"
            /\ UNCHANGED <<staging_table_name, failedAt>>
       ELSE \E ok \in BOOLEAN :
              /\ staging_table_name' = TRUE
              /\ IF ok THEN pc' = "load" /\ UNCHANGED failedAt
                       ELSE pc' = "pre_failed" /\ Fail("pre_load")
    /\ UNCHANGED <<dbVars, conn, data, enriched, track_deletes, clock, ts,
                   stats, result, histVars>>
    /\ issued' = IF data = <<>> THEN issued ELSE issued \cup {<<"hook.run", "target">>}
    /\ UNCHANGED <<directVars, concVars, extVars>>

\* load() without the empty-batch return: an empty batch is enriched, staged
\* and merged like any other
LoadEnrich_noEmptyReturn ==
    /\ pc = "load"
    /\ write_mode = "historize"
    /\ enriched' = _enrich_with_system_columns(data, clock)
    /\ pc' = "get_conn"
    /\ UNCHANGED result
    /\ UNCHANGED <<dbVars, conn, data, staging_table_name, track_deletes,
                   clock, ts, stats, histVars, failedAt>>
    /\ UNCHANGED issued
    /\ UNCHANGED <<directVars, concVars, extVars>>

\* load(): the empty-batch return, else enrich the batch
LoadEnrich ==
    /\ pc = "load"
    /\ write_mode = "historize"
    /\ IF data = <<>>
       THEN /\ result' = [status |-> "success", rows_loaded |-> 0]
            /\ pc' = "post_load"
            /\ UNCHANGED enriched
       ELSE /\ enriched' = _enrich_with_system_columns(data, clock)
            /\ pc' = "get_conn"
            /\ UNCHANGED result
    /\ UNCHANGED <<dbVars, conn, data, staging_table_name, track_deletes,
                   clock, ts, stats, histVars, failedAt>>
    /\ UNCHANGED issued
    /\ UNCHANGED <<directVars, concVars, extVars>>

\* conn = hook.get_conn(); cursor = conn.cursor()
GetConn ==
    /\ pc = "get_conn"
    /\ \E ok \in BOOLEAN :
          IF ok
          THEN /\ conn' = "open"
               /\ pc' = "create_staging"
               /\ UNCHANGED <<result, failedAt>>
          ELSE /\ result' = [status |-> "failed", rows_loaded |-> 0]
               /\ pc' = "post_load"
               /\ Fail("get_conn")
               /\ UNCHANGED conn
    /\ UNCHANGED <<dbVars, data, enriched, staging_table_name, track_deletes,
                   clock, ts, stats, histVars>>
    /\ UNCHANGED issued
    /\ UNCHANGED <<directVars, concVars, extVars>>

\* _create_staging_table_with_conn: CREATE TEMPORARY TABLE in the
\* connection's (implicitly opened) transaction
CreateStaging ==
    /\ pc = "create_staging"
    /\ \E ok \in BOOLEAN :
          IF ok
          THEN /\ stagingState' = "uncommitted"
               /\ pc' = "fill_staging"
               /\ UNCHANGED failedAt
          ELSE /\ pc' = "l_rollback"
               /\ Fail("create_staging")
               /\ UNCHANGED stagingState
    /\ UNCHANGED <<target, work, staging, conn, data, enriched,
                   staging_table_name, track_deletes, clock, ts, stats,
                   result, histVars>>
    /\ issued' = issued \cup {<<"conn", "staging">>}
    /\ UNCHANGED <<directVars, concVars, extVars>>

\* cursor.executemany(insert_sql, rows); conn.commit()
FillStaging ==
    /\ pc = "fill_staging"
    /\ \E ok \in BOOLEAN :
          IF ok
          THEN /\ staging' = enriched
               /\ stagingState' = "committed"
               /\ pc' = "m_begin"
               /\ UNCHANGED failedAt
          ELSE /\ pc' = "l_rollback"
               /\ Fail("fill_staging")
               /\ UNCHANGED <<staging, stagingState>>
    /\ UNCHANGED <<target, work, conn, data, enriched, staging_table_name,
                   track_deletes, clock, ts, stats, result, histVars>>
    /\ issued' = issued \cup {<<"conn", "staging">>}
    /\ UNCHANGED <<directVars, concVars, extVars>>


\* _merge_historized_data up to the first phase: current_timestamp, the
\* sample query on the staging table (outside the try block), then
\* conn.cursor() and BEGIN (inside it)
MergeBegin ==
    /\ pc = "m_begin"
    /\ ts' = MergeTimestamp(clock)
    /\ \E outcome \in {"ok", "sample_fails", "begin_fails"} :
          /\ pc' = CASE outcome = "ok" -> "m_restore"
                     [] outcome = "sample_fails" -> "l_rollback"
                     [] outcome = "begin_fails" -> "m_rollback"
          /\ IF outcome = "ok" THEN UNCHANGED failedAt ELSE Fail("m_begin")
    /\ UNCHANGED <<dbVars, conn, data, enriched, staging_table_name,
                   track_deletes, clock, stats, result, histVars>>
    /\ issued' = issued \cup {<<"conn", "staging">>}
    /\ UNCHANGED <<directVars, concVars, extVars>>

\* cursor.execute(restore_sql); restored_count = cursor.rowcount
MergeRestore ==
    /\ pc = "m_restore"
    /\ \E ok \in BOOLEAN :
          IF ok
          THEN /\ work' = RestorePhase(work, staging, ts)
               /\ stats' = [stats EXCEPT !.restored = Cardinality(RestoreHits(work, staging))]
               /\ pc' = "m_supersede"
               /\ UNCHANGED failedAt
          ELSE /\ pc' = "m_rollback"
               /\ Fail("restore")
               /\ UNCHANGED <<work, stats>>
    /\ UNCHANGED <<target, staging, stagingState, conn, data, enriched,
                   staging_table_name, track_deletes, clock, ts, result, histVars>>
    /\ issued' = issued \cup {<<"conn", "staging">>, <<"conn", "target">>}
    /\ UNCHANGED <<directVars, concVars, extVars>>

\* the supersede statement on a connection in autocommit mode: its effect
\* is committed as soon as the statement ends
MergeSupersede_autocommit ==
    /\ pc = "m_supersede"
    /\ \E ok \in BOOLEAN :
          IF ok
          THEN /\ work' = SupersedePhase(work, staging, ts)
               /\ target' = SupersedePhase(work, staging, ts)
               /\ stats' = [stats EXCEPT !.superseded = Cardinality(SupersedeHits(work, staging))]
               /\ pc' = "m_insert"
               /\ UNCHANGED failedAt
          ELSE /\ pc' = "m_rollback"
               /\ Fail("supersede")
               /\ UNCHANGED <<target, work, stats>>
    /\ UNCHANGED <<staging, stagingState, conn, data, enriched,
                   staging_table_name, track_deletes, clock, ts, result, histVars>>
    /\ issued' = issued \cup {<<"conn", "staging">>, <<"conn", "target">>}
    /\ UNCHANGED <<directVars, concVars, extVars>>

\* cursor.execute(supersede_sql); superseded_count = cursor.rowcount
MergeSupersede ==
    /\ pc = "m_supersede"
    /\ \E ok \in BOOLEAN :
          IF ok
          THEN /\ work' = SupersedePhase(work, staging, ts)
               /\ stats' = [stats EXCEPT !.superseded = Cardinality(SupersedeHits(work, staging))]
               /\ pc' = "m_insert"
               /\ UNCHANGED failedAt
          ELSE /\ pc' = "m_rollback"
               /\ Fail("supersede")
               /\ UNCHANGED <<work, stats>>
    /\ UNCHANGED <<target, staging, stagingState, conn, data, enriched,
                   staging_table_name, track_deletes, clock, ts, result, histVars>>
    /\ issued' = issued \cup {<<"conn", "staging">>, <<"conn", "target">>}
    /\ UNCHANGED <<directVars, concVars, extVars>>

\* cursor.execute(insert_sql); inserted_count = cursor.rowcount
\* (insert_sql is never empty here: load() fills staging from a non-empty batch)
MergeInsert ==
    /\ pc = "m_insert"
    /\ \E ok \in BOOLEAN :
          IF ok
          THEN /\ Len(work) + Len(InsertSelected(work, staging)) <= MaxRows
               /\ work' = InsertPhase(work, staging, ts)
               /\ stats' = [stats EXCEPT !.inserted = Len(InsertSelected(work, staging))]
               /\ pc' = "m_delete"
               /\ UNCHANGED failedAt
          ELSE /\ pc' = "m_rollback"
               /\ Fail("insert")
               /\ UNCHANGED <<work, stats>>
    /\ UNCHANGED <<target, staging, stagingState, conn, data, enriched,
                   staging_table_name, track_deletes, clock, ts, result, histVars>>
    /\ issued' = issued \cup {<<"conn", "staging">>, <<"conn", "target">>}
    /\ UNCHANGED <<directVars, concVars, extVars>>

\* the delete statement run whatever track_deletes says
MergeDelete_always ==
    /\ pc = "m_delete"
    /\ \E ok \in BOOLEAN :
          IF ok
          THEN /\ work' = DeletePhase(work, staging, ts)
               /\ stats' = [stats EXCEPT !.deleted = Cardinality(DeleteHits(work, staging))]
               /\ pc' = "m_commit"
               /\ UNCHANGED failedAt
          ELSE /\ pc' = "m_rollback"
               /\ Fail("delete")
               /\ UNCHANGED <<work, stats>>
    /\ UNCHANGED <<target, staging, stagingState, conn, data, enriched,
                   staging_table_name, track_deletes, clock, ts, result, histVars>>
    /\ issued' = issued \cup {<<"conn", "staging">>, <<"conn", "target">>}
    /\ UNCHANGED <<directVars, concVars, extVars>>

\* if delete_sql: cursor.execute(delete_sql); deleted_count = cursor.rowcount
\* (delete_sql is empty unless self.track_deletes)
MergeDelete ==
    /\ pc = "m_delete"
    /\ IF ~track_deletes
       THEN /\ pc' = "m_commit"
            /\ UNCHANGED <<work, stats, failedAt>>
       ELSE \E ok \in BOOLEAN :
              IF ok
              THEN /\ work' = DeletePhase(work, staging, ts)
                   /\ stats' = [stats EXCEPT !.deleted = Cardinality(DeleteHits(work, staging))]
                   /\ pc' = "m_commit"
                   /\ UNCHANGED failedAt
              ELSE /\ pc' = "m_rollback"
                   /\ Fail("delete")
                   /\ UNCHANGED <<work, stats>>
    /\ UNCHANGED <<target, staging, stagingState, conn, data, enriched,
                   staging_table_name, track_deletes, clock, ts, result, histVars>>
    /\ issued' = IF track_deletes THEN issued \cup {<<"conn", "staging">>, <<"conn", "target">>} ELSE issued
    /\ UNCHANGED <<directVars, concVars, extVars>>

\* cursor.execute("COMMIT"); cursor.close(); conn.commit()
MergeCommit ==
    /\ pc = "m_commit"
    /\ \E ok \in BOOLEAN :
          IF ok
          THEN /\ target' = work
               /\ prevData' = data
               /\ repeat' = (prevData = data)
               /\ pc' = "drop_staging"
               /\ UNCHANGED failedAt
          ELSE /\ pc' = "m_rollback"
               /\ Fail("commit")
               /\ UNCHANGED <<target, prevData, repeat>>
    /\ UNCHANGED <<work, staging, stagingState, conn, data, enriched,
                   staging_table_name, track_deletes, clock, ts, stats, result,
                   pre, allUnique, loads>>
    /\ UNCHANGED issued
    /\ UNCHANGED <<directVars, concVars, extVars>>

\* except-block of _merge_historized_data: ROLLBACK and conn.rollback(),
\* whose own failure is swallowed; then the exception is raised again
MergeRollback ==
    /\ pc = "m_rollback"
    /\ \E ok \in BOOLEAN :
          work' = IF ok THEN target ELSE work
    /\ pc' = "l_rollback"
    /\ UNCHANGED <<target, staging, stagingState, conn, data, enriched,
                   staging_table_name, track_deletes, clock, ts, stats, result,
                   histVars, failedAt>>
    /\ UNCHANGED issued
    /\ UNCHANGED <<directVars, concVars, extVars>>

\* a load() that reports the rows the merge inserted as rows_loaded
DropStaging_rowsInserted ==
    /\ pc = "drop_staging"
    /\ \E ok \in BOOLEAN :
          IF ok
          THEN /\ staging' = <<>>
               /\ stagingState' = "none"
               /\ conn' = "closed"
               /\ result' = [status |-> "success", rows_loaded |-> stats.inserted]
               /\ pc' = "post_load"
               /\ UNCHANGED failedAt
          ELSE /\ pc' = "l_rollback"
               /\ Fail("drop_staging")
               /\ UNCHANGED <<staging, stagingState, conn, result>>
    /\ UNCHANGED <<target, work, data, enriched, staging_table_name,
                   track_deletes, clock, ts, stats, histVars>>
    /\ issued' = issued \cup {<<"conn", "staging">>}
    /\ UNCHANGED <<directVars, concVars, extVars>>

\* load(): DROP TABLE IF EXISTS staging; conn.commit(); cursor.close();
\* conn.close(); return the success result
DropStaging ==
    /\ pc = "drop_staging"
    /\ \E ok \in BOOLEAN :
          IF ok
          THEN /\ staging' = <<>>
               /\ stagingState' = "none"
               /\ conn' = "closed"
               /\ result' = [status |-> "success", rows_loaded |-> Len(data)]
               /\ pc' = "post_load"
               /\ UNCHANGED failedAt
          ELSE /\ pc' = "l_rollback"
               /\ Fail("drop_staging")
               /\ UNCHANGED <<staging, stagingState, conn, result>>
    /\ UNCHANGED <<target, work, data, enriched, staging_table_name,
                   track_deletes, clock, ts, stats, histVars>>
    /\ issued' = issued \cup {<<"conn", "staging">>}
    /\ UNCHANGED <<directVars, concVars, extVars>>

\* except-block of the historize branch of load(): conn.rollback();
\* cursor.close(); conn.close() inside try/except-pass, so a failing
\* rollback skips both close() calls.  The raise that follows is caught by
\* the outer except of load(), which returns the failed result.
\* Closing the connection ends the session and with it the TEMPORARY table.
\* A rollback fails either because the connection is broken (the session
\* is gone, psycopg2 marks the connection closed) or for a reason local to
\* the client such as a task timeout raised inside the call (the session,
\* its open transaction and its TEMPORARY table stay, close() is skipped).
LoadRollback ==
    /\ pc = "l_rollback"
    /\ \E ok \in BOOLEAN :
          IF ok
          THEN /\ work' = target
               /\ staging' = <<>>
               /\ stagingState' = "none"
               /\ conn' = "closed"
          ELSE \E sessionLost \in BOOLEAN :
                  IF sessionLost
                  THEN /\ work' = target
                       /\ staging' = <<>>
                       /\ stagingState' = "none"
                       /\ conn' = "closed"
                  ELSE UNCHANGED <<work, staging, stagingState, conn>>
    /\ result' = [status |-> "failed", rows_loaded |-> 0]
    /\ pc' = "post_load"
    /\ UNCHANGED <<target, data, enriched, staging_table_name, track_deletes,
                   clock, ts, stats, histVars, failedAt>>
    /\ UNCHANGED issued
    /\ UNCHANGED <<directVars, concVars, extVars>>

\* post_load_hook: DROP TABLE IF EXISTS <staging> through a new connection of
\* the hook (another session, which cannot see the TEMPORARY table of the
\* connection of load()), and DROP TABLE IF EXISTS <schema>.<temp> in the
\* same way; a failure is printed as a warning
post_load_hook ==
    /\ pc = "post_load"
    /\ issued' = issued
                 \cup (IF staging_table_name THEN {<<"hook.run", "staging">>} ELSE {})
                 \cup (IF use_temp_table /\ temp_table_name THEN {<<"hook.run", "temp">>} ELSE {})
    /\ Return

\* an exception of pre_load_hook ends load_data before load() is called
TaskFailed ==
    /\ pc = "pre_failed"
    /\ UNCHANGED issued
    /\ Return

Next ==
    \/ Tick
    \/ Begin
    \/ pre_load_hook
    \/ LoadEnrich
    \/ GetConn
    \/ CreateStaging
    \/ FillStaging
    \/ MergeBegin
    \/ MergeRestore
    \/ MergeSupersede
    \/ MergeInsert
    \/ MergeDelete
    \/ MergeCommit
    \/ MergeRollback
    \/ DropStaging
    \/ LoadRollback
    \/ post_load_hook
    \/ TaskFailed

Spec == Init /\ [][Next]_vars

\* the same loads with the delete tracking of the configuration fixed:
\* historization.track_deletes on (the default), and off
InitTrackDeletes == Init /\ track_deletes
SpecTrackDeletes == InitTrackDeletes /\ [][Next]_vars

InitNoTrackDeletes == Init /\ ~track_deletes
SpecNoTrackDeletes == InitNoTrackDeletes /\ [][Next]_vars

\* ------------------------------------------- the other write modes
WriteModes == {"append", "truncate", "replace", "historize"}

\* self.temp_table_threshold (config; 1000 unless set)
temp_table_threshold == 1

\* pre_load_hook without the return for an empty batch: table creation is a
\* no-op for want of a sample row, but truncate mode still runs TRUNCATE
pre_load_hook_direct_noEmptyReturn ==
    /\ pc = "pre_load"
    /\ write_mode # "historize"
    /\ use_temp_table' = (Len(data) > temp_table_threshold)
    /\ temp_table_name' = (Len(data) > temp_table_threshold)
    /\ issued' = issued \cup
          {<<"hook.run", IF Len(data) > temp_table_threshold
                         THEN "temp" ELSE "target">>}
    /\ \E outcome \in
             IF write_mode = "truncate" /\ Len(data) <= temp_table_threshold
             THEN {"ok", "create_fails", "truncate_fails"}
             ELSE {"ok", "create_fails"} :
          /\ target' = IF /\ outcome = "ok"
                          /\ write_mode = "truncate"
                          /\ Len(data) <= temp_table_threshold
                       THEN <<>> ELSE target
          /\ work' = target'
          /\ IF outcome = "ok"
             THEN pc' = "load" /\ UNCHANGED failedAt
             ELSE pc' = "pre_failed" /\ Fail("pre_load")
    /\ UNCHANGED <<staging, stagingState, conn, data, enriched,
                   staging_table_name, track_deletes, clock, ts, stats, result,
                   histVars, write_mode, concVars, extVars>>

\* pre_load_hook, branch of the modes without history: decides on the temp
\* table strategy.  With it, CREATE TEMPORARY TABLE <temp> runs through
\* hook.run, whose connection is closed when run returns: the table is gone
\* with that session.  Without it, CREATE TABLE IF NOT EXISTS for the target
\* and, in truncate mode, TRUNCATE TABLE, each committed by hook.run
pre_load_hook_direct ==
    /\ pc = "pre_load"
    /\ write_mode # "historize"
    /\ IF data = <<>>
       THEN /\ pc' = "load"
            /\ UNCHANGED <<target, work, use_temp_table, temp_table_name,
                           failedAt, issued>>
       ELSE /\ use_temp_table' = (Len(data) > temp_table_threshold)
            /\ temp_table_name' = (Len(data) > temp_table_threshold)
            /\ issued' = issued \cup
                  {<<"hook.run", IF Len(data) > temp_table_threshold
                                 THEN "temp" ELSE "target">>}
            /\ \E outcome \in
                     IF write_mode = "truncate" /\ Len(data) <= temp_table_threshold
                     THEN {"ok", "create_fails", "truncate_fails"}
                     ELSE {"ok", "create_fails"} :
                  /\ target' = IF /\ outcome = "ok"
                                  /\ write_mode = "truncate"
                                  /\ Len(data) <= temp_table_threshold
                               THEN <<>> ELSE target
                  /\ work' = target'
                  /\ IF outcome = "ok"
                     THEN pc' = "load" /\ UNCHANGED failedAt
                     ELSE pc' = "pre_failed" /\ Fail("pre_load")
    /\ UNCHANGED <<staging, stagingState, conn, data, enriched,
                   staging_table_name, track_deletes, clock, ts, stats, result,
                   histVars, write_mode, concVars, extVars>>

\* the insert of load() when nothing catches its exception: a failure leaves
\* load() as an exception and ends load_data
load_direct_raises ==
    /\ pc = "load"
    /\ write_mode # "historize"
    /\ IF data = <<>>
       THEN /\ result' = [status |-> "success", rows_loaded |-> 0]
            /\ pc' = "post_load"
            /\ UNCHANGED <<target, work, failedAt, issued>>
       ELSE \E outcome \in IF use_temp_table
                           THEN {"conn_fails", "insert_fails", "undefined_table"}
                           ELSE {"ok", "conn_fails", "insert_fails"} :
              /\ issued' = IF outcome = "conn_fails" THEN issued
                           ELSE issued \cup {<<"insert_rows",
                                   IF use_temp_table THEN "temp" ELSE "target">>}
              /\ IF outcome = "ok"
                 THEN /\ Len(target) + Len(data) <= MaxRows
                      /\ target' = target \o data
                      /\ result' = [status |-> "success", rows_loaded |-> Len(data)]
                      /\ pc' = "post_load"
                      /\ UNCHANGED failedAt
                 ELSE /\ pc' = "pre_failed"
                      /\ Fail(CASE outcome = "conn_fails" -> "get_conn"
                                [] outcome = "insert_fails" -> "insert"
                                [] OTHER -> outcome)
                      /\ UNCHANGED <<target, result>>
              /\ work' = target'
    /\ UNCHANGED <<staging, stagingState, conn, data, enriched,
                   staging_table_name, track_deletes, clock, ts, stats,
                   histVars, directVars, concVars, extVars>>

\* load() in the modes without history: the empty-batch return, else
\* hook.insert_rows into <schema>.<temp or target> (one commit for a batch of
\* up to commit_every rows) inside the try block of load(), whose except
\* returns the failed result.  <schema>.<temp> does not exist (the TEMPORARY
\* table of pre_load_hook lived in another session and in no schema of that
\* name), so with the temp table strategy the insert raises UndefinedTable
\* even when the database is sound ("undefined_table") and _swap_tables is
\* not reached
load_direct ==
    /\ pc = "load"
    /\ write_mode # "historize"
    /\ IF data = <<>>
       THEN /\ result' = [status |-> "success", rows_loaded |-> 0]
            /\ UNCHANGED <<target, work, failedAt, issued>>
       ELSE \E outcome \in IF use_temp_table
                           THEN {"conn_fails", "insert_fails", "undefined_table"}
                           ELSE {"ok", "conn_fails", "insert_fails"} :
              /\ issued' = IF outcome = "conn_fails" THEN issued
                           ELSE issued \cup {<<"insert_rows",
                                   IF use_temp_table THEN "temp" ELSE "target">>}
              /\ IF outcome = "ok"
                 THEN /\ Len(target) + Len(data) <= MaxRows
                      /\ target' = target \o data
                      /\ result' = [status |-> "success", rows_loaded |-> Len(data)]
                      /\ UNCHANGED failedAt
                 ELSE /\ result' = [status |-> "failed", rows_loaded |-> 0]
                      /\ Fail(CASE outcome = "conn_fails" -> "get_conn"
                                [] outcome = "insert_fails" -> "insert"
                                [] OTHER -> outcome)
                      /\ UNCHANGED target
              /\ work' = target'
    /\ pc' = "post_load"
    /\ UNCHANGED <<staging, stagingState, conn, data, enriched,
                   staging_table_name, track_deletes, clock, ts, stats,
                   histVars, directVars, concVars, extVars>>

\* the destination is configured with any of the four write modes
InitModes ==
    /\ Fresh
    /\ write_mode \in WriteModes

NextModes ==
    \/ Next
    \/ pre_load_hook_direct
    \/ load_direct

SpecModes == InitModes /\ [][NextModes]_vars

\* ------------------------------------- historize loads at the same time
\* Each load has its connection, hence its session and its transaction, in
\* PostgreSQL's default isolation level READ COMMITTED: a statement sees the
\* committed table as it is when the statement starts, together with the
\* changes its own transaction has made; an UPDATE of a row that another
\* open transaction has updated waits for that transaction to end.  The
\* merge takes no lock of its own.
SessionIds == {"A", "B"}

\* the batches that keep the input contract of one record per id_hash
UniqueBatches == {b \in Batches : b # <<>> /\ UniqueIds(b)}

\* the target as a statement of session s sees it: the committed rows, those
\* the session has updated in their new version, then the rows it inserted
View(s) ==
    [i \in 1..Len(target) |->
        IF i \in DOMAIN sessions[s].upd THEN sessions[s].upd[i] ELSE target[i]]
    \o sessions[s].ins

\* rows updated by the open transactions of the other sessions
LockedBy(s) ==
    UNION {DOMAIN sessions[o].upd : o \in DOMAIN sessions \ {s}}

\* session s after a statement has turned its view into rows
Writes(s, rows) ==
    [sessions[s] EXCEPT
        !.upd = [i \in {k \in 1..Len(target) : rows[k] # target[k]} |-> rows[i]],
        !.ins = SubSeq(rows, Len(target) + 1, Len(rows))]

SessionStep(s, rec) == sessions' = [sessions EXCEPT ![s] = rec]

sessionFrame ==
    <<target, work, staging, stagingState, conn, pc, data, enriched,
      staging_table_name, track_deletes, clock, ts, stats, result, pre,
      failedAt, allUnique, prevData, repeat, issued, directVars, extVars>>

\* a load_data run reaches _merge_historized_data with its staging table
\* filled; another load may be in progress
SessionBegin ==
    /\ loads < MaxLoads
    /\ loads' = loads + 1
    /\ \E s \in SessionIds \ DOMAIN sessions, batch \in UniqueBatches :
          sessions' = (s :> [pc |-> "m_restore",
                             staging |-> _enrich_with_system_columns(batch, clock),
                             ts |-> MergeTimestamp(clock),
                             upd |-> <<>>,
                             ins |-> <<>>]) @@ sessions
    /\ overlapped' = (overlapped \/ DOMAIN sessions # {})
    /\ UNCHANGED sessionFrame

SessionRestore ==
    /\ \E s \in DOMAIN sessions :
          /\ sessions[s].pc = "m_restore"
          /\ RestoreHits(View(s), sessions[s].staging) \cap LockedBy(s) = {}
          /\ SessionStep(s, [Writes(s, RestorePhase(View(s), sessions[s].staging, sessions[s].ts))
                                EXCEPT !.pc = "m_supersede"])
    /\ UNCHANGED <<sessionFrame, loads, overlapped>>

SessionSupersede ==
    /\ \E s \in DOMAIN sessions :
          /\ sessions[s].pc = "m_supersede"
          /\ SupersedeHits(View(s), sessions[s].staging) \cap LockedBy(s) = {}
          /\ SessionStep(s, [Writes(s, SupersedePhase(View(s), sessions[s].staging, sessions[s].ts))
                                EXCEPT !.pc = "m_insert"])
    /\ UNCHANGED <<sessionFrame, loads, overlapped>>

SessionInsert ==
    /\ \E s \in DOMAIN sessions :
          /\ sessions[s].pc = "m_insert"
          /\ SessionStep(s, [Writes(s, InsertPhase(View(s), sessions[s].staging, sessions[s].ts))
                                EXCEPT !.pc = "m_delete"])
    /\ UNCHANGED <<sessionFrame, loads, overlapped>>

SessionDelete ==
    /\ \E s \in DOMAIN sessions :
          /\ sessions[s].pc = "m_delete"
          /\ IF track_deletes
             THEN /\ DeleteHits(View(s), sessions[s].staging) \cap LockedBy(s) = {}
                  /\ SessionStep(s, [Writes(s, DeletePhase(View(s), sessions[s].staging, sessions[s].ts))
                                        EXCEPT !.pc = "m_commit"])
             ELSE SessionStep(s, [sessions[s] EXCEPT !.pc = "m_commit"])
    /\ UNCHANGED <<sessionFrame, loads, overlapped>>

\* a commit that publishes the inserted rows without the updates
SessionCommit_insertsOnly ==
    /\ \E s \in DOMAIN sessions :
          /\ sessions[s].pc = "m_commit"
          /\ Len(View(s)) <= MaxRows
          /\ target' = target \o sessions[s].ins
          /\ sessions' = [t \in DOMAIN sessions \ {s} |-> sessions[t]]
    /\ work' = target'
    /\ UNCHANGED <<staging, stagingState, conn, pc, data, enriched,
                   staging_table_name, track_deletes, clock, ts, stats, result,
                   pre, failedAt, allUnique, prevData, repeat, issued,
                   directVars, extVars, loads, overlapped>>

\* COMMIT: the changes of the session become the committed table; the load
\* ends and its connection is closed
SessionCommit ==
    /\ \E s \in DOMAIN sessions :
          /\ sessions[s].pc = "m_commit"
          /\ Len(View(s)) <= MaxRows
          /\ target' = View(s)
          /\ sessions' = [t \in DOMAIN sessions \ {s} |-> sessions[t]]
    /\ work' = target'
    /\ UNCHANGED <<staging, stagingState, conn, pc, data, enriched,
                   staging_table_name, track_deletes, clock, ts, stats, result,
                   pre, failedAt, allUnique, prevData, repeat, issued,
                   directVars, extVars, loads, overlapped>>

\* a statement fails (or the server ends a deadlock): ROLLBACK, the load ends
SessionRollback ==
    /\ \E s \in DOMAIN sessions :
          sessions' = [t \in DOMAIN sessions \ {s} |-> sessions[t]]
    /\ UNCHANGED <<sessionFrame, loads, overlapped>>

NextConcurrent ==
    \/ SessionBegin
    \/ SessionRestore
    \/ SessionSupersede
    \/ SessionInsert
    \/ SessionDelete
    \/ SessionCommit
    \/ SessionRollback

SpecConcurrent == Init /\ [][NextConcurrent]_vars

\* ------------------------------------------- construction of a destination
\* A dictionary is a function on the keys it has.
EmptyDict == <<>>

\* d.get(k, default)
Get(d, k, default) == IF k \in DOMAIN d THEN d[k] ELSE default

\* key k is absent, or present with one of the values V
Opt(k, V) == {EmptyDict} \cup {k :> v : v \in V}

\* the "historization" dictionaries: id_columns absent, empty or ["id"];
\* hash_algorithm absent, "md5", "sha256" or an unsupported one
HistorizationConfigs ==
    {a @@ b : a \in Opt("id_columns", {<<>>, id_columns}),
              b \in Opt("hash_algorithm", {"md5", "sha256", "sha1"})}

\* the configurations a pipeline definition can hand to the constructor
Configs ==
    {a @@ b @@ c : a \in Opt("table_name", {"", "employees"}),
                   b \in Opt("write_mode", WriteModes \cup {"upsert"}),
                   c \in Opt("historization", HistorizationConfigs)}

\* a constructor that validates nothing
validate_config_nothing(cfg) == "ok"

\* validate_config(): "ok", or the ValueError it raises
validate_config(cfg) ==
    IF "table_name" \notin DOMAIN cfg \/ cfg["table_name"] = ""
    THEN "Missing required configuration field: table_name"
    ELSE LET mode == Get(cfg, "write_mode", "historize") IN
         IF mode \notin {"append", "truncate", "replace", "historize"}
         THEN "Invalid write_mode"
         ELSE IF mode # "historize" THEN "ok"
         ELSE LET historization == Get(cfg, "historization", EmptyDict) IN
              IF "id_columns" \notin DOMAIN historization
                 \/ historization["id_columns"] = <<>>
              THEN "historization.id_columns is required when write_mode='historize'"
              ELSE IF Get(historization, "hash_algorithm", "md5") \notin {"md5", "sha256"}
              THEN "Invalid hash_algorithm"
              ELSE "ok"

\* DestinationFactory.create(destination_config), the first statement of
\* load_data: __init__ calls validate_config() and then copies the settings.
\* A ValueError ends the task; otherwise load_data goes on to pre_load_hook.
\* An invalid write_mode that got past the validation is stored as it is.
__init__ ==
    /\ pc = "construct"
    /\ IF validate_config(config) = "ok"
       THEN /\ pc' = "idle"
            /\ write_mode' = Get(config, "write_mode", "historize")
       ELSE /\ pc' = "config_error"
            /\ UNCHANGED write_mode
    /\ UNCHANGED <<dbVars, conn, data, enriched, staging_table_name,
                   track_deletes, clock, ts, stats, result, histVars, failedAt,
                   issued, use_temp_table, temp_table_name, concVars, extVars>>

\* load_data is about to build its destination from some configuration; the
\* attributes of the destination do not exist yet.  track_deletes stands for
\* the historization.track_deletes key, and the run is the last one the
\* bound on the runs allows.
InitConfig ==
    /\ target = <<>>
    /\ work = <<>>
    /\ staging = <<>>
    /\ stagingState = "none"
    /\ conn = "none"
    /\ pc = "construct"
    /\ data = <<>>
    /\ enriched = <<>>
    /\ staging_table_name = FALSE
    /\ track_deletes \in BOOLEAN
    /\ clock = 0
    /\ ts = NULL
    /\ stats = ZeroStats
    /\ result = NoResult
    /\ pre = <<>>
    /\ failedAt = "none"
    /\ allUnique = TRUE
    /\ prevData = <<>>
    /\ repeat = FALSE
    /\ loads = MaxLoads - 1
    /\ issued = {}
    /\ write_mode = "unset"
    /\ use_temp_table = FALSE
    /\ temp_table_name = FALSE
    /\ sessions = <<>>
    /\ overlapped = FALSE
    /\ config \in Configs
    /\ NoHashing
    /\ NoTransform
    /\ NoRequest

NextConfig ==
    \/ __init__
    \/ NextModes

SpecConfig == InitConfig /\ [][NextConfig]_vars

\* ------------------------------------------------- hashing of any record
\* A Python dict as the list of its items <<key, value>> in insertion order.
NullV == [t |-> "null", s |-> ""]

HashValues == {IntV("1"), StrV("1"), NullV, StrV("None"),
               StrV("x"), StrV("y"), StrV("x|name:y")}

\* the dicts with one or two of the keys "id" and "name", in either order
HashRecords ==
    {<<<<k, v>>>> : k \in {"id", "name"}, v \in HashValues}
    \cup {<<<<k[1], v>>, <<k[2], w>>>> :
             k \in {<<"id", "name">>, <<"name", "id">>},
             v \in HashValues, w \in HashValues}

\* the place of a key in the sorted order of the keys
Rank(k) == CHOOSE i \in 1..Len(SortedKeys) : SortedKeys[i] = k

\* sorted(record.items()): the keys of a dict differ, so the key decides
sorted(items) ==
    LET place(j) == 1 + Cardinality({m \in 1..Len(items) :
                                        Rank(items[m][1]) < Rank(items[j][1])})
    IN [i \in 1..Len(items) |-> items[CHOOSE j \in 1..Len(items) : place(j) = i]]

\* "|".join(f"{k}:{v}" for k, v in sorted_items)
record_str(items) ==
    LET sorted_items == sorted(items)
    IN Join([i \in 1..Len(items) |->
                sorted_items[i][1] \o ":" \o Str(sorted_items[i][2])], "|")

\* _calculate_record_hash applied to the two records
CalculateRecordHashes ==
    /\ hashes = <<>>
    /\ hashes' = <<Digest(record_str(records[1])), Digest(record_str(records[2]))>>
    /\ UNCHANGED <<loadVars, config, records, dedupVars, shopifyVars>>

InitHash ==
    /\ Idle
    /\ NoConstruction
    /\ records \in HashRecords \X HashRecords
    /\ hashes = <<>>
    /\ NoTransform
    /\ NoRequest

NextHash == CalculateRecordHashes

SpecHash == InitHash /\ [][NextHash]_vars

\* ------------------------------------- ValidateDuplicateIdsTransform
\* the records handed to the transform: the identifier 1 as an integer and as
\* a string, the identifier 2, each with two names
TransformRecords ==
    {[id |-> i, name |-> StrV(n)] : i \in {IntV("1"), StrV("1"), IntV("2")},
                                    n \in {"a", "b"}}

\* the lists of up to MaxInput records
TransformInputs ==
    UNION {[1..n -> TransformRecords] : n \in 0..MaxInput}

\* tuple(str(row.get(col, '')) for col in self.id_columns)
id_tuple(row) == [k \in 1..Len(id_columns) |-> Str(row[id_columns[k]])]

\* _find_duplicates()['duplicate_ids']: the id tuples counted more than once
duplicate_ids(rows) ==
    {id_tuple(rows[i]) : i \in {j \in 1..Len(rows) :
          \E m \in 1..Len(rows) : m # j /\ id_tuple(rows[m]) = id_tuple(rows[j])}}

\* reversed(data) / result.reverse()
Reverse(s) == [i \in 1..Len(s) |-> s[Len(s) + 1 - i]]

\* the loop of _deduplicate: a row is appended unless its id tuple was seen
RECURSIVE KeepUnseen(_, _)
KeepUnseen(rows, seen_ids) ==
    IF rows = <<>> THEN <<>>
    ELSE IF id_tuple(Head(rows)) \in seen_ids
         THEN KeepUnseen(Tail(rows), seen_ids)
         ELSE <<Head(rows)>> \o KeepUnseen(Tail(rows), seen_ids \cup {id_tuple(Head(rows))})

\* _deduplicate that does not reverse the result back for keep = 'last'
_deduplicate_notReversedBack(rows, k) ==
    IF k = "first" THEN KeepUnseen(rows, {})
    ELSE KeepUnseen(Reverse(rows), {})

_deduplicate(rows, k) ==
    IF k = "first" THEN KeepUnseen(rows, {})
    ELSE Reverse(KeepUnseen(Reverse(rows), {}))

\* transform() with action 'deduplicate': [] for no data, the data as it is
\* when no id tuple occurs twice, else the deduplicated data
transform ==
    /\ ~returned
    /\ returned' = TRUE
    /\ deduplicated_data' =
          IF source_data = <<>> THEN <<>>
          ELSE IF duplicate_ids(source_data) # {}
               THEN _deduplicate(source_data, keep)
               ELSE source_data
    /\ UNCHANGED <<loadVars, config, hashVars, source_data, keep, shopifyVars>>

InitTransform ==
    /\ Idle
    /\ NoConstruction
    /\ NoHashing
    /\ source_data \in TransformInputs
    /\ keep \in {"first", "last"}
    /\ deduplicated_data = <<>>
    /\ returned = FALSE
    /\ NoRequest

NextTransform == transform

SpecTransform == InitTransform /\ [][NextTransform]_vars

\* ------------------------------------------------------- ShopifyHook.run
\* what a request to the endpoint ends in: the status code of the response,
\* or NoResponse when the session raises a RequestException (connection
\* error, timeout)
NoResponse == 0
Outcomes == {NoResponse, 200, 429, 404, 500}

Methods == {"GET", "POST", "PUT", "DELETE", "PATCH"}

\* a response whose errors are never raised
raise_for_status_never(status_code) == FALSE

\* response.raise_for_status() raises HTTPError, a RequestException
raise_for_status(status_code) == 400 <= status_code /\ status_code < 600

shopifyFrame == <<loadVars, config, hashVars, dedupVars>>

\* run() is called: ValueError without an endpoint, else the loop starts
RunCall ==
    /\ run_pc = "call"
    /\ run_pc' = IF endpoint THEN "loop" ELSE "raised"
    /\ UNCHANGED <<endpoint, method, max_retries, attempt, response, responses>>
    /\ UNCHANGED shopifyFrame

\* one pass of "for attempt in range(max_retries)".  get_conn() exchanges the
\* authorization code for a token, and a failure of that leaves run() as an
\* Exception, as does the ValueError for an unsupported method; neither is a
\* RequestException.  Then the request: a 429 sleeps and continues (int() of
\* a Retry-After header that is not a number raises ValueError), an error
\* status or a RequestException is retried unless this was the last attempt,
\* any other response is returned.
Attempt ==
    /\ run_pc = "loop"
    /\ attempt < max_retries
    /\ \E token \in {"ok", "exchange_fails"} :
          IF token # "ok" \/ method \notin {"GET", "POST", "PUT", "DELETE"}
          THEN /\ run_pc' = "raised"
               /\ UNCHANGED <<attempt, response, responses>>
          ELSE \E status_code \in Outcomes, retry_after \in {"absent", "seconds", "date"} :
                  /\ status_code # 429 => retry_after = "absent"
                  /\ responses' = Append(responses, status_code)
                  /\ IF status_code = 429
                     THEN IF retry_after = "date"
                          THEN run_pc' = "raised" /\ UNCHANGED <<attempt, response>>
                          ELSE /\ attempt' = attempt + 1
                               /\ UNCHANGED <<run_pc, response>>
                     ELSE IF status_code = NoResponse \/ raise_for_status(status_code)
                     THEN IF attempt = max_retries - 1
                          THEN run_pc' = "raised" /\ UNCHANGED <<attempt, response>>
                          ELSE /\ attempt' = attempt + 1
                               /\ UNCHANGED <<run_pc, response>>
                     ELSE /\ run_pc' = "returned"
                          /\ response' = status_code
                          /\ UNCHANGED attempt
    /\ UNCHANGED <<endpoint, method, max_retries>>
    /\ UNCHANGED shopifyFrame

\* the loop is exhausted: raise Exception("Unexpected error calling ...")
Exhausted ==
    /\ run_pc = "loop"
    /\ attempt >= max_retries
    /\ run_pc' = "raised"
    /\ UNCHANGED <<endpoint, method, max_retries, attempt, response, responses>>
    /\ UNCHANGED shopifyFrame

InitShopify ==
    /\ Idle
    /\ NoConstruction
    /\ NoHashing
    /\ NoTransform
    /\ endpoint \in BOOLEAN
    /\ method \in Methods
    /\ max_retries \in 0..MaxRetries
    /\ attempt = 0
    /\ run_pc = "call"
    /\ response = NULL
    /\ responses = <<>>

NextShopify ==
    \/ RunCall
    \/ Attempt
    \/ Exhausted

SpecShopify == InitShopify /\ [][NextShopify]_vars

\* run() is one sequential loop: its next statement is executed, and every
\* request and every sleep comes to an end
FairSpecShopify == SpecShopify /\ WF_vars(NextShopify)

\* ------------------------------------------------------------ type check
TypeOK ==
    /\ Len(target) <= MaxRows
    /\ pc \in {"idle", "pre_load", "load", "get_conn", "create_staging",
               "fill_staging", "m_begin", "m_restore", "m_supersede",
               "m_insert", "m_delete", "m_commit", "m_rollback",
               "drop_staging", "l_rollback", "post_load", "pre_failed",
               "construct", "config_error"}
    /\ conn \in {"none", "open", "closed"}
    /\ stagingState \in {"none", "uncommitted", "committed"}
    /\ clock \in 0..MaxClock


\* ------------------------------------------------------- shared vocabulary
\* _merge_historized_data has returned its statistics to load()
MergeDone ==
    /\ data # <<>>
    /\ \/ pc = "drop_staging"
       \/ pc = "post_load" /\ result.status = "success"

RowsOf(rows, h) == {i \in 1..Len(rows) : rows[i].id_hash = h}
CurrentOf(rows, h) == {i \in RowsOf(rows, h) : IsCurrent(rows[i])}
OpenOf(rows, h) == {i \in RowsOf(rows, h) : rows[i].valid_to = NULL}
CurrentRows(rows) == {rows[i] : i \in {k \in 1..Len(rows) : IsCurrent(rows[k])}}
BatchRecordsOf(h) == {j \in 1..Len(enriched) : enriched[j].id_hash = h}

\* what the committed merge did to the rows that existed before the load
RestoredRows == {i \in 1..Len(pre) : pre[i].deleted_at # NULL /\ target[i].deleted_at = NULL}
SupersededRows == {i \in 1..Len(pre) : pre[i].valid_to = NULL /\ target[i].valid_to # NULL}
DeletedRows == {i \in 1..Len(pre) : pre[i].deleted_at = NULL /\ target[i].deleted_at # NULL}
InsertedRows == (Len(pre) + 1)..Len(target)

AtMostOneCurrent(rows) ==
    \A i, j \in 1..Len(rows) :
        (IsCurrent(rows[i]) /\ IsCurrent(rows[j]) /\ rows[i].id_hash = rows[j].id_hash)
            => i = j

\* ---------------------------------------------------------------- claims

\* C1: starting from an empty target, after any sequence of historize loads
\* that run one at a time and whose batches each hold at most one record per
\* id_hash, every id_hash has at most one current row (valid_to and
\* deleted_at both null) in the target.
C1_AtMostOneCurrent == allUnique => AtMostOneCurrent(target)

\* a second version of an identity was loaded: its id_hash has two rows
C1_Witness ==
    /\ allUnique
    /\ pc = "post_load"
    /\ result.status = "success"
    /\ \E i, j \in 1..Len(target) :
          /\ i # j
          /\ target[i].id_hash = target[j].id_hash
          /\ ~IsCurrent(target[i])
          /\ IsCurrent(target[j])

\* C2: when one of the four merge phases fails, the target holds, once
\* load() has finished, exactly the rows and lifecycle values it held before
\* the load.
C2_PhaseFailureLeavesTarget ==
    (pc = "post_load" /\ failedAt \in {"restore", "supersede", "insert", "delete"})
        => target = pre

\* the insert phase failed after the supersede phase had retired a row
C2_Witness ==
    /\ pc = "post_load"
    /\ failedAt = "insert"
    /\ stats.superseded = 1
    /\ result.status = "failed"
    /\ target = pre

\* C3: merging again the batch of the preceding successful merge (one record
\* per id_hash) gives the statistics 0/0/0/0, adds no row and leaves the set
\* of current rows as it was.
C3_RepeatIsNoop ==
    (repeat /\ UniqueIds(data))
        => /\ stats = ZeroStats
           /\ Len(target) = Len(pre)
           /\ CurrentRows(target) = CurrentRows(pre)

C3_Witness ==
    /\ repeat
    /\ UniqueIds(data)
    /\ pc = "post_load"
    /\ result.status = "success"
    /\ Len(data) = 2
    /\ stats = ZeroStats

\* C4: a batch record whose id_hash is that of the current target row but
\* whose record_hash differs: the merge sets valid_to = t on the old row and
\* leaves its deleted_at null, inserts exactly one row for the id_hash (new
\* record_hash, valid_from = t, valid_to and deleted_at null), and counts the
\* identity once in superseded and once in inserted.  Batches hold one
\* record per id_hash.
C4_ChangedIsSupersededAndInserted ==
    (MergeDone /\ allUnique) =>
        \A j \in 1..Len(enriched) : \A i \in 1..Len(pre) :
            (/\ pre[i].id_hash = enriched[j].id_hash
             /\ IsCurrent(pre[i])
             /\ pre[i].record_hash # enriched[j].record_hash)
            => LET h == enriched[j].id_hash
                   new == RowsOf(target, h) \cap InsertedRows
               IN  /\ target[i].valid_to = ts
                   /\ target[i].deleted_at = NULL
                   /\ Cardinality(RowsOf(target, h)) = Cardinality(RowsOf(pre, h)) + 1
                   /\ Cardinality(new) = 1
                   /\ \A k \in new :
                         /\ target[k].record_hash = enriched[j].record_hash
                         /\ target[k].data = enriched[j].data
                         /\ target[k].valid_from = ts
                         /\ target[k].valid_to = NULL
                         /\ target[k].deleted_at = NULL
                   /\ RowsOf(pre, h) \cap SupersededRows = {i}
                   /\ stats.superseded = Cardinality(SupersededRows)
                   /\ stats.inserted = Cardinality(InsertedRows)

C4_Witness ==
    /\ MergeDone
    /\ allUnique
    /\ pc = "post_load"
    /\ stats = [restored |-> 0, superseded |-> 1, inserted |-> 1, deleted |-> 0]
    /\ \E j \in 1..Len(enriched) : \E i \in 1..Len(pre) :
          /\ pre[i].id_hash = enriched[j].id_hash
          /\ IsCurrent(pre[i])
          /\ pre[i].record_hash # enriched[j].record_hash
          /\ target[i].valid_to = ts


\* an identity of the batch whose open row was marked deleted before the load
DeletedOpen(i, j) ==
    /\ pre[i].id_hash = enriched[j].id_hash
    /\ pre[i].valid_to = NULL
    /\ pre[i].deleted_at # NULL

\* C5: an identity whose open row is marked deleted reappears with the same
\* record_hash: the merge clears deleted_at on that row and inserts no row
\* for the identity, which counts in restored only; the number of rows of
\* the id_hash is unchanged.  Batches hold one record per id_hash.
C5_UnchangedIsRestoredOnly ==
    (MergeDone /\ allUnique) =>
        \A j \in 1..Len(enriched) : \A i \in 1..Len(pre) :
            (DeletedOpen(i, j) /\ pre[i].record_hash = enriched[j].record_hash)
            => LET h == enriched[j].id_hash
               IN  /\ target[i].deleted_at = NULL
                   /\ target[i].valid_to = NULL
                   /\ RowsOf(target, h) = RowsOf(pre, h)
                   /\ RowsOf(pre, h) \cap RestoredRows = {i}
                   /\ RowsOf(pre, h) \cap SupersededRows = {}
                   /\ RowsOf(target, h) \cap InsertedRows = {}
                   /\ stats.restored = Cardinality(RestoredRows)
                   /\ stats.superseded = Cardinality(SupersededRows)
                   /\ stats.inserted = Cardinality(InsertedRows)

C5_Witness ==
    /\ MergeDone
    /\ allUnique
    /\ pc = "post_load"
    /\ stats = [restored |-> 1, superseded |-> 0, inserted |-> 0, deleted |-> 0]
    /\ \E j \in 1..Len(enriched) : \E i \in 1..Len(pre) :
          /\ DeletedOpen(i, j)
          /\ pre[i].record_hash = enriched[j].record_hash
          /\ target[i].deleted_at = NULL

\* row i was deleted-open before the load and batch record j brings its
\* identity back with another record_hash
ChangedDeletedOpen(i, j) ==
    /\ i \in 1..Len(pre)
    /\ j \in 1..Len(enriched)
    /\ DeletedOpen(i, j)
    /\ pre[i].record_hash # enriched[j].record_hash

\* C6: an identity whose open row is marked deleted reappears with another
\* record_hash: the merge first clears deleted_at on the old row (restore),
\* then sets its valid_to = t (supersede), then inserts exactly one row;
\* afterwards the identity has exactly one current row, with the new
\* record_hash, and the old row has deleted_at null and valid_to = t.
\* Batches hold one record per id_hash.
C6_ChangedIsRestoredSupersededInserted ==
    allUnique =>
        \A j \in 1..Len(enriched) : \A i \in 1..Len(pre) :
            ChangedDeletedOpen(i, j) =>
                LET h == enriched[j].id_hash
                IN  /\ pc = "m_restore" =>
                          work[i].deleted_at # NULL /\ work[i].valid_to = NULL
                    /\ pc = "m_supersede" =>
                          /\ work[i].deleted_at = NULL
                          /\ work[i].valid_to = NULL
                          /\ Len(work) = Len(pre)
                    /\ pc = "m_insert" =>
                          /\ work[i].deleted_at = NULL
                          /\ work[i].valid_to = ts
                          /\ Len(work) = Len(pre)
                    /\ pc \in {"m_delete", "m_commit"} =>
                          Cardinality(RowsOf(work, h)) = Cardinality(RowsOf(pre, h)) + 1
                    /\ MergeDone =>
                          /\ target[i].deleted_at = NULL
                          /\ target[i].valid_to = ts
                          /\ Cardinality(RowsOf(target, h) \cap InsertedRows) = 1
                          /\ Cardinality(CurrentOf(target, h)) = 1
                          /\ \A k \in CurrentOf(target, h) :
                                /\ k \in InsertedRows
                                /\ target[k].record_hash = enriched[j].record_hash

C6_Witness ==
    /\ MergeDone
    /\ allUnique
    /\ pc = "post_load"
    /\ stats = [restored |-> 1, superseded |-> 1, inserted |-> 1, deleted |-> 0]
    /\ \E j \in 1..Len(enriched) : \E i \in 1..Len(pre) :
          /\ ChangedDeletedOpen(i, j)
          /\ target[i].valid_to = ts
          /\ target[i].deleted_at = NULL

\* C7: with track_deletes, a successful merge of a non-empty batch sets
\* deleted_at = t on every current row whose id_hash is in no batch record
\* and leaves its valid_to null; it inserts and removes no row of those
\* identities; no row whose id_hash is in the batch is marked deleted.
C7_AbsentCurrentRowsAreMarkedDeleted ==
    (MergeDone /\ track_deletes) =>
        /\ \A i \in 1..Len(pre) :
              (IsCurrent(pre[i]) /\ pre[i].id_hash \notin StagingIds(enriched))
                  => target[i].deleted_at = ts /\ target[i].valid_to = NULL
        /\ \A i \in 1..Len(target) :
              IF target[i].id_hash \in StagingIds(enriched)
              THEN target[i].deleted_at = NULL
              ELSE i <= Len(pre)
        /\ Len(target) >= Len(pre)
        /\ \A i \in 1..Len(pre) : target[i].id_hash = pre[i].id_hash

C7_Witness ==
    /\ MergeDone
    /\ track_deletes
    /\ pc = "post_load"
    /\ stats.deleted = 1
    /\ \E i \in 1..Len(pre) :
          /\ IsCurrent(pre[i])
          /\ pre[i].id_hash \notin StagingIds(enriched)
          /\ target[i].deleted_at = ts


\* the columns of a row other than the two lifecycle timestamps
InsertedColumns(r) ==
    [data |-> r.data, record_hash |-> r.record_hash, id_hash |-> r.id_hash,
     valid_from |-> r.valid_from, loaded_at |-> r.loaded_at,
     load_batch_id |-> r.load_batch_id]

\* the same without valid_from
FixedColumns(r) ==
    [data |-> r.data, record_hash |-> r.record_hash, id_hash |-> r.id_hash,
     loaded_at |-> r.loaded_at, load_batch_id |-> r.load_batch_id]

\* C8 as stated: no target row is ever removed, and every column of an
\* existing row other than valid_to and deleted_at (valid_from included)
\* keeps the value it had when the row was inserted.
C8_Original ==
    [][\A i \in 1..Len(target) :
          /\ i <= Len(target')
          /\ InsertedColumns(target'[i]) = InsertedColumns(target[i])]_vars

\* C8 amended: no target row is ever removed, and every column of an
\* existing row other than valid_to, deleted_at and valid_from keeps the
\* value it had when the row was inserted; valid_from changes only on a row
\* whose deleted_at the restore phase of the committing merge clears, and
\* becomes the timestamp of that merge.
C8_OnlyLifecycleColumnsChange ==
    [][\A i \in 1..Len(target) :
          /\ i <= Len(target')
          /\ FixedColumns(target'[i]) = FixedColumns(target[i])
          /\ target'[i].valid_from # target[i].valid_from
                => /\ pc = "m_commit"
                   /\ target[i].deleted_at # NULL
                   /\ target'[i].deleted_at = NULL
                   /\ target'[i].valid_from = ts]_vars

\* a merge restored a row and moved its valid_from
C8_Witness ==
    /\ pc = "drop_staging"
    /\ \E i \in 1..Len(pre) :
          /\ target[i].valid_from # pre[i].valid_from
          /\ FixedColumns(target[i]) = FixedColumns(pre[i])
    /\ \E i \in 1..Len(pre) : target[i].valid_to # pre[i].valid_to

MergePhasePc == {"m_restore", "m_supersede", "m_insert", "m_delete"}

\* C9: once a row's valid_to is non-null it never changes again; a row's
\* deleted_at is never overwritten from one timestamp to another, and it
\* goes back to null only in the restore phase of a merge whose batch holds
\* the row's id_hash.  Stated of the committed table and of every statement
\* of a merge transaction.
C9_LifecycleTransitions ==
    [][/\ \A i \in 1..Len(target) :
             /\ target[i].valid_to # NULL
                   => target'[i].valid_to = target[i].valid_to
             /\ target[i].deleted_at # NULL
                   => target'[i].deleted_at \in {target[i].deleted_at, NULL}
             /\ (target[i].deleted_at # NULL /\ target'[i].deleted_at = NULL)
                   => /\ pc = "m_commit"
                      /\ target[i].id_hash \in StagingIds(staging)
                      /\ stats.restored > 0
       /\ (pc \in MergePhasePc /\ pc' \in MergePhasePc \cup {"m_commit"})
             => \A i \in 1..Len(work) :
                   /\ work[i].valid_to # NULL
                         => work'[i].valid_to = work[i].valid_to
                   /\ work[i].deleted_at # NULL
                         => work'[i].deleted_at \in {work[i].deleted_at, NULL}
                   /\ (work[i].deleted_at # NULL /\ work'[i].deleted_at = NULL)
                         => /\ pc = "m_restore"
                            /\ work[i].id_hash \in StagingIds(staging)]_vars

\* a row was retired by one merge and another row restored by a later one
C9_Witness ==
    /\ pc = "drop_staging"
    /\ \E i \in 1..Len(pre) : pre[i].deleted_at # NULL /\ target[i].deleted_at = NULL
    /\ \E i \in 1..Len(pre) :
          pre[i].valid_to # NULL /\ pre[i].valid_to # ts /\ target[i].valid_to = pre[i].valid_to

\* C10: whenever a historize load() of a non-empty batch finishes, on every
\* exit path, the staging relation that load created no longer exists and
\* the connection that owned it is closed.
C10_StagingGoneAndConnectionClosed ==
    (pc = "post_load" /\ data # <<>> /\ conn # "none")
        => (stagingState = "none" /\ conn = "closed")

\* C11: in a historize load every statement that names the staging table
\* (create, fill, sample, the four merge statements, drop) is issued on the
\* connection opened by load(), that connection stays open for as long as
\* the staging table exists, and no other connection issues a statement
\* that names the staging table
C11_StagingOnlyOnLoadConnection ==
    /\ \A s \in issued : s[2] = "staging" => s[1] = "conn"
    /\ stagingState # "none" => conn = "open"

\* the steps of load() in which staging or merging can fail
StagingOrMergeSteps ==
    {"create_staging", "fill_staging", "m_begin", "restore", "supersede",
     "insert", "delete", "commit", "drop_staging"}

\* C12: when staging or merging fails in a historize load, load() raises to
\* its caller: it hands no result value back
C12_FailedHistorizeLoadRaises ==
    failedAt \in StagingOrMergeSteps => result.status = "none"

C15_EmptyBatchTouchesNothing ==
    [][(data = <<>> /\ pc \in {"pre_load", "load", "post_load"})
          => /\ issued = {} /\ issued' = {}
             /\ target' = target /\ target = pre
             /\ stagingState' = "none" /\ conn' = "none"
             /\ pc = "pre_load" => pc' = "load"
             /\ (pc = "load" /\ pc' # "load")
                   => /\ pc' = "post_load"
                      /\ result' = [status |-> "success", rows_loaded |-> 0]]_vars

C15_Witness ==
    /\ write_mode = "truncate"
    /\ pc = "post_load"
    /\ data = <<>>
    /\ target # <<>>
    /\ issued = {}
    /\ result = [status |-> "success", rows_loaded |-> 0]

\* a historize load_data run with an empty batch and track_deletes on has
\* returned from load()
EmptyBatchLoaded ==
    /\ write_mode = "historize"
    /\ track_deletes
    /\ data = <<>>
    /\ pc = "post_load"

\* C14 as stated: a historize load of an empty batch with track_deletes
\* sets deleted_at to a timestamp on every row that was current, and inserts
\* and removes no rows
C14_Original ==
    EmptyBatchLoaded
        => /\ Len(target) = Len(pre)
           /\ \A i \in 1..Len(pre) :
                 IsCurrent(pre[i]) => target[i].deleted_at \in 0..MaxClock

\* C14, amended: a historize load of an empty batch with track_deletes
\* returns status "success" with rows_loaded 0 before any merge: every row
\* of the target is as it was (rows that were current are still current, no
\* deleted_at is set), and no rows are inserted or removed
C14_EmptyBatchLeavesCurrentRows ==
    EmptyBatchLoaded
        => /\ target = pre
           /\ \A i \in 1..Len(pre) : IsCurrent(pre[i]) => IsCurrent(target[i])
           /\ result = [status |-> "success", rows_loaded |-> 0]

C14_Witness ==
    /\ EmptyBatchLoaded
    /\ \E i \in 1..Len(pre) : IsCurrent(pre[i]) /\ IsCurrent(target[i])

\* C16: the merge takes no table lock.  When no two historize loads of the
\* table were ever in progress at the same time, the committed table has at
\* most one current row per id_hash; when two loads overlap, each decides
\* from its own view and both can commit a current row for one id_hash
C16_OneCurrentOnlyWithoutOverlap ==
    ~overlapped => AtMostOneCurrent(target)

\* both sessions have committed and left two current rows for one id_hash
C16_Witness ==
    /\ overlapped
    /\ sessions = <<>>
    /\ \E i, j \in 1..Len(target) :
          /\ i # j
          /\ IsCurrent(target[i]) /\ IsCurrent(target[j])
          /\ target[i].id_hash = target[j].id_hash

\* the four statements of _merge_historized_data, one after the other
FullMerge(rows, stg, t) ==
    LET restored == RestorePhase(rows, stg, t)
        superseded == SupersedePhase(restored, stg, t)
        inserted == InsertPhase(superseded, stg, t)
    IN  IF track_deletes THEN DeletePhase(inserted, stg, t) ELSE inserted

Status(r) ==
    IF r.deleted_at # NULL THEN "deleted"
    ELSE IF r.valid_to # NULL THEN "historical"
    ELSE "current"

\* the rows without their timestamps: identity, version and state of each
Shape(rows) ==
    [i \in 1..Len(rows) |->
        [id_hash |-> rows[i].id_hash,
         record_hash |-> rows[i].record_hash,
         status |-> Status(rows[i])]]

\* a historize load with one record per id_hash has returned the failed result
FailedLoad ==
    /\ write_mode = "historize"
    /\ pc = "post_load"
    /\ result.status = "failed"
    /\ UniqueIds(data)

\* C17: a successful load is the composition of the four statements on the
\* table it found; and when a load of batch B has failed, either it left
\* the table as it had found it, or running the whole load of B again, at
\* any later time, on the table it left gives row for row the same
\* identities, versions and states (current, historical, deleted) as one
\* successful load of B on the table the failed load had found: only
\* timestamps can differ
C17_RetryEqualsSingleLoad ==
    /\ MergeDone => target = FullMerge(pre, enriched, ts)
    /\ FailedLoad =>
          \/ target = pre
          \/ \A now \in clock..MaxClock :
                Shape(FullMerge(target, _enrich_with_system_columns(data, now),
                                MergeTimestamp(now)))
                  = Shape(FullMerge(pre, _enrich_with_system_columns(data, now),
                                    MergeTimestamp(now)))

\* the load failed after its merge was committed (the drop of the staging
\* table raised) and the merge had changed the table
C17_Witness ==
    /\ FailedLoad
    /\ failedAt = "drop_staging"
    /\ target # pre
    /\ \E i \in 1..Len(pre) : target[i] # pre[i]

\* C18: after every successful historize load the statistics are the counts
\* of what the merge did to the table: restored = rows whose deleted_at it
\* cleared, superseded = rows whose valid_to it set, deleted = rows whose
\* deleted_at it set, inserted = rows the table grew by; and rows_loaded is
\* the number of records of the batch, whatever inserted is
C18_StatsCountTheChanges ==
    MergeDone =>
        /\ stats.restored = Cardinality(RestoredRows)
        /\ stats.superseded = Cardinality(SupersededRows)
        /\ stats.deleted = Cardinality(DeletedRows)
        /\ stats.inserted = Len(target) - Len(pre)
        /\ pc = "post_load" => result.rows_loaded = Len(data)

\* a load that restored a row and inserted fewer rows than it was given
C18_Witness ==
    /\ MergeDone
    /\ pc = "post_load"
    /\ stats.restored = 1
    /\ Cardinality(RestoredRows) = 1
    /\ stats.inserted < Len(data)
    /\ result.rows_loaded = Len(data)

\* C19: within one historize load every timestamp has the one value of the
\* merge timestamp, even when the clock advances during the load: valid_from
\* and loaded_at of every enriched (staged) record, valid_from and loaded_at
\* of every inserted row, valid_from of every restored row, valid_to of
\* every superseded row, deleted_at of every deleted row
C19_OneTimestampPerLoad ==
    (write_mode = "historize" /\ ts # NULL) =>
        /\ \A j \in 1..Len(enriched) :
              enriched[j].valid_from = ts /\ enriched[j].loaded_at = ts
        /\ MergeDone =>
              /\ \A i \in InsertedRows :
                    target[i].valid_from = ts /\ target[i].loaded_at = ts
              /\ \A i \in RestoredRows : target[i].valid_from = ts
              /\ \A i \in SupersededRows : target[i].valid_to = ts
              /\ \A i \in DeletedRows : target[i].deleted_at = ts

\* C20: with track_deletes off no merge sets deleted_at: the deleted
\* statistic is 0, no row of the table (committed or inside the
\* transaction) is in the deleted state, and a current row whose id_hash is
\* not in the batch is still current after the merge
C20_NoDeletesWithoutTrackDeletes ==
    (write_mode = "historize" /\ ~track_deletes) =>
        /\ stats.deleted = 0
        /\ \A i \in 1..Len(target) : target[i].deleted_at = NULL
        /\ \A i \in 1..Len(work) : work[i].deleted_at = NULL
        /\ MergeDone =>
              \A i \in 1..Len(pre) :
                  (IsCurrent(pre[i]) /\ pre[i].id_hash \notin StagingIds(enriched))
                      => IsCurrent(target[i])

C20_Witness ==
    /\ ~track_deletes
    /\ MergeDone
    /\ pc = "post_load"
    /\ \E i \in 1..Len(pre) :
          /\ IsCurrent(pre[i])
          /\ pre[i].id_hash \notin StagingIds(enriched)
          /\ IsCurrent(target[i])

\* ------------------------------------------------------------------ C21
\* the configurations the claim names: table_name missing, write_mode not one
\* of the four, or historize (also by default) without identifying columns or
\* with a hash algorithm other than md5 and sha256
NamedInvalid(cfg) ==
    LET mode == Get(cfg, "write_mode", "historize")
        historization == Get(cfg, "historization", EmptyDict)
    IN \/ "table_name" \notin DOMAIN cfg
       \/ mode \notin WriteModes
       \/ /\ mode = "historize"
          /\ \/ "id_columns" \notin DOMAIN historization
             \/ historization["id_columns"] = <<>>
             \/ Get(historization, "hash_algorithm", "md5") \notin {"md5", "sha256"}

\* C21: constructing the destination from a configuration without table_name,
\* with an unknown write_mode, or with historize (also by default) and no
\* id_columns or an unsupported hash_algorithm raises before a connection is
\* opened or a statement issued, and nothing of load_data runs afterwards.
C21_InvalidConfigRaisesBeforeIO ==
    (pc # "construct" /\ NamedInvalid(config)) =>
        /\ pc = "config_error"
        /\ conn = "none"
        /\ issued = {}
        /\ loads = MaxLoads - 1
        /\ data = <<>>
        /\ result = NoResult

\* historize by default, with an empty list of identifying columns
C21_Witness ==
    /\ pc = "config_error"
    /\ DOMAIN config = {"table_name", "historization"}
    /\ config["historization"] = ("id_columns" :> <<>>)

\* ------------------------------------------------------------------ C22
\* C22: in append, truncate and replace mode, when load() has failed, the
\* target holds after pre_load_hook, load and post_load_hook the rows it held
\* before pre_load_hook ran.
C22_FailedDirectLoadRestoresTarget ==
    [][(/\ pc = "post_load"
        /\ write_mode \in {"append", "truncate", "replace"}
        /\ result.status = "failed") => target' = pre]_vars

\* ------------------------------------------------------------------ C23
\* C23: in a mode without history and with a batch above temp_table_threshold,
\* a load that meets no database fault returns status "success" and the
\* target then holds the batch (replace, truncate: exactly the batch; append:
\* the rows from before and the batch), filled through the temporary table
\* of pre_load_hook (which, in the model, is gone with pre_load_hook's
\* session).
C23_TempTableStrategyLoads ==
    (/\ pc = "post_load"
     /\ write_mode # "historize"
     /\ use_temp_table
     /\ failedAt \in {"none", "undefined_table"})
        => /\ result = [status |-> "success", rows_loaded |-> Len(data)]
           /\ target = IF write_mode = "append" THEN pre \o data ELSE data

\* ------------------------------------------------------------------ C24
\* the fields of a record with their values, whatever the order of the keys
Fields(items) == {items[i] : i \in 1..Len(items)}

\* some field that both records have has different values in them
ValueDiffers(a, b) ==
    \E x \in Fields(a), y \in Fields(b) : x[1] = y[1] /\ x[2] # y[2]

\* C24: two records with the same fields and values in a different key order
\* have the same record_hash, and two records in which the value of some field
\* differs have different record hashes, also when the values differ only in
\* type (1 and "1", null and "None") or contain ':' or '|'.
C24_RecordHashSensitive ==
    hashes # <<>> =>
        /\ Fields(records[1]) = Fields(records[2]) => hashes[1] = hashes[2]
        /\ ValueDiffers(records[1], records[2]) => hashes[1] # hashes[2]

\* ------------------------------------------------------------------ C25
\* the elements of s at the places K, in the order of s
RECURSIVE At(_, _, _)
At(s, K, from) ==
    IF from > Len(s) THEN <<>>
    ELSE IF from \in K THEN <<s[from]>> \o At(s, K, from + 1)
    ELSE At(s, K, from + 1)

\* the places of the first (keep = "first") or last occurrence of every
\* identifier, two rows having the same identifier when Same says so
KeptPlaces(rows, k, Same(_, _)) ==
    {i \in 1..Len(rows) :
        IF k = "first"
        THEN \A j \in 1..(i - 1) : ~Same(rows[j], rows[i])
        ELSE \A j \in (i + 1)..Len(rows) : ~Same(rows[j], rows[i])}

SameValues(r, q) == \A k \in 1..Len(id_columns) : r[id_columns[k]] = q[id_columns[k]]
SameRendering(r, q) == id_tuple(r) = id_tuple(q)

\* C25 as stated: one record per distinct tuple of id-column values (the
\* first or the last occurrence), in the original relative order.
C25_Original ==
    returned =>
        deduplicated_data = At(source_data, KeptPlaces(source_data, keep, SameValues), 1)

\* C25: one record per distinct tuple of the str() renderings of the id-column
\* values (the first occurrence for keep = 'first', the last for 'last'), the
\* kept records in their original relative order; a record whose rendered id
\* tuple occurs once is kept.
C25_DeduplicateKeepsOnePerRenderedId ==
    returned =>
        /\ deduplicated_data = At(source_data, KeptPlaces(source_data, keep, SameRendering), 1)
        /\ \A i \in 1..Len(source_data) :
              (\A j \in 1..Len(source_data) :
                    j # i => ~SameRendering(source_data[i], source_data[j]))
                 => \E m \in 1..Len(deduplicated_data) : deduplicated_data[m] = source_data[i]

\* keep = 'last' on three records, the first and the last of one identifier
C25_Witness ==
    /\ returned
    /\ keep = "last"
    /\ Len(source_data) = 3
    /\ SameRendering(source_data[1], source_data[3])
    /\ source_data[1] # source_data[3]
    /\ ~SameRendering(source_data[1], source_data[2])
    /\ deduplicated_data = <<source_data[2], source_data[3]>>

\* ------------------------------------------------------------------ C26
\* the (id_hash, record_hash) pairs of a set or list of rows
Pairs(S) == {<<r.id_hash, r.record_hash>> : r \in S}

\* C26: after a successful historize merge of a non-empty batch with one
\* record per id_hash and with track_deletes, the (id_hash, record_hash) pairs
\* of the current rows of the target are exactly those of the batch, whatever
\* loads came before.
C26_CurrentSetIsBatchSet ==
    (MergeDone /\ track_deletes /\ UniqueIds(data)) =>
        Pairs(CurrentRows(target)) = Pairs({enriched[j] : j \in 1..Len(enriched)})

\* the third load, after a batch with two versions of one identity; it
\* retires a version and marks an identity as deleted
C26_Witness ==
    /\ MergeDone
    /\ pc = "post_load"
    /\ track_deletes
    /\ UniqueIds(data)
    /\ ~allUnique
    /\ stats.deleted >= 1
    /\ Len(enriched) = 1
    /\ Cardinality(CurrentRows(target)) = 1

\* ------------------------------------------------------------------ C27
\* C27: after any sequence of successful historize loads, one at a time and
\* each with one record per id_hash, no row has both valid_to and deleted_at,
\* and every id_hash has at most one row with valid_to null, current and
\* deleted rows counted together.
C27_OneOpenRowPerIdentity ==
    allUnique =>
        \A i \in 1..Len(target) :
            /\ target[i].valid_to = NULL \/ target[i].deleted_at = NULL
            /\ target[i].valid_to = NULL => OpenOf(target, target[i].id_hash) = {i}

\* an identity that was deleted and came back changed: its old row is
\* retired and not deleted, its new row is the only open one
C27_Witness ==
    /\ allUnique
    /\ MergeDone
    /\ pc = "post_load"
    /\ stats.restored = 1
    /\ stats.superseded = 1
    /\ stats.inserted = 1
    /\ \E i \in 1..Len(target) :
          /\ target[i].valid_to # NULL
          /\ Cardinality(OpenOf(target, target[i].id_hash)) = 1

\* ------------------------------------------------------------------ C28
\* the four statements with insert_sql executed before supersede_sql
ReorderedMerge(rows, stg, t) ==
    LET restored == RestorePhase(rows, stg, t)
        inserted == InsertPhase(restored, stg, t)
        superseded == SupersedePhase(inserted, stg, t)
    IN  IF track_deletes THEN DeletePhase(superseded, stg, t) ELSE superseded

\* the identities with a current row before the load whose record_hash the
\* batch changes
ChangedIdentities ==
    {pre[i].id_hash : i \in {k \in 1..Len(pre) :
          /\ IsCurrent(pre[k])
          /\ \E j \in 1..Len(enriched) :
                /\ enriched[j].id_hash = pre[k].id_hash
                /\ enriched[j].record_hash # pre[k].record_hash}}

\* C28 as stated: with insert before supersede, a merge that changes the
\* record_hash of an existing current identity ends with two current rows
\* for that id_hash.
C28_Original ==
    (MergeDone /\ allUnique) =>
        \A h \in ChangedIdentities :
            Cardinality(CurrentOf(ReorderedMerge(pre, enriched, ts), h)) = 2

\* C28: with insert before supersede, a merge of a batch with one record per
\* id_hash ends with the very rows the merge in the code's order ends with,
\* so with one current row for an identity whose record_hash changed: the
\* supersede statement closes only rows whose record_hash differs from the
\* staged one, and so spares the row just inserted.
C28_ReorderedMergeGivesSameRows ==
    (MergeDone /\ allUnique) =>
        LET reordered == ReorderedMerge(pre, enriched, ts)
        IN  /\ reordered = target
            /\ \A h \in ChangedIdentities : Cardinality(CurrentOf(reordered, h)) = 1

\* a merge that retired the current version of an identity and inserted the
\* new one
C28_Witness ==
    /\ MergeDone
    /\ allUnique
    /\ pc = "post_load"
    /\ ChangedIdentities # {}
    /\ stats.superseded = 1
    /\ stats.inserted = 1
    /\ ReorderedMerge(pre, enriched, ts) = target

\* ------------------------------------------------------------------ C29
\* C29: in write_mode 'replace', after a successful load of a batch the
\* target holds exactly the rows of the batch and none of the rows it held
\* before, above the temp table threshold and at or below it.
C29_ReplaceLeavesOnlyTheBatch ==
    (/\ pc = "post_load"
     /\ write_mode = "replace"
     /\ data # <<>>
     /\ result.status = "success") => target = data

\* ------------------------------------------------------------------ C30
RunEnded == run_pc \in {"returned", "raised"}

\* a request that is retried: a 429, an error status or no response at all
Retried(status_code) ==
    status_code = 429 \/ status_code = NoResponse \/ status_code >= 400

\* C30: ShopifyHook.run ends after at most max_retries requests to the
\* endpoint; it returns the first response that is neither a 429 nor an
\* error status, it raises when all max_retries requests ended in a 429 or a
\* failure, and it returns no 429 and no error response.
C30_RunEndsWithinMaxRetries ==
    /\ [](/\ Len(responses) <= max_retries
          /\ run_pc = "returned" =>
                /\ ~Retried(response)
                /\ response = responses[Len(responses)]
                /\ \A i \in 1..(Len(responses) - 1) : Retried(responses[i])
          /\ (RunEnded /\ \A i \in 1..Len(responses) : Retried(responses[i]))
                => run_pc = "raised")
    /\ <>RunEnded

\* all MaxRetries requests were used up, by a 429, a failure and an error
C30_Witness ==
    /\ run_pc = "raised"
    /\ max_retries = MaxRetries
    /\ responses = <<429, NoResponse, 500>>

====
